---- MODULE Spec2Model ----
(***************************************************************************)
(* Model of the 500 WPM reader backend (backend/main.py): the ingestion    *)
(* endpoint process_file with its helpers validate_url, is_private_ip,     *)
(* detect_format, parse_txt_file, parse_epub_file and Chapter.             *)
(*                                                                         *)
(* Representation.  A Python str that the code inspects character by       *)
(* character (URLs, host names, file names, header values, titles) is a    *)
(* sequence of one-character strings.  Document text and bytes are         *)
(* sequences of integers (code points, byte values).  Python's None is     *)
(* the value None below.                                                   *)
(***************************************************************************)
EXTENDS Integers, Sequences, FiniteSets, TLC

\* None where the code expects a str: distinct from every character sequence,
\* whose elements are single characters
None == <<"None">>

\* the truth value Python gives an Optional[str]: None and "" are falsy
Truthy(s) == s # None /\ s # <<>>

(***************************************************************************)
(* str helpers                                                             *)
(***************************************************************************)
UpperAlpha == <<"A","B","C","D","E","F","G","H","I","J","K","L","M",
                "N","O","P","Q","R","S","T","U","V","W","X","Y","Z">>
LowerAlpha == <<"a","b","c","d","e","f","g","h","i","j","k","l","m",
                "n","o","p","q","r","s","t","u","v","w","x","y","z">>
Digits == <<"0","1","2","3","4","5","6","7","8","9">>

Range(s) == {s[i] : i \in DOMAIN s}

\* str.lower() on one character
LowerChar(c) ==
    IF \E i \in DOMAIN UpperAlpha : UpperAlpha[i] = c
    THEN LowerAlpha[CHOOSE i \in DOMAIN UpperAlpha : UpperAlpha[i] = c]
    ELSE c

\* str.lower()
Lower(s) == [i \in DOMAIN s |-> LowerChar(s[i])]

\* str.endswith(suffix)
EndsWith(s, suffix) ==
    /\ Len(suffix) <= Len(s)
    /\ SubSeq(s, Len(s) - Len(suffix) + 1, Len(s)) = suffix

\* str.startswith(prefix)
StartsWith(s, prefix) ==
    /\ Len(prefix) <= Len(s)
    /\ SubSeq(s, 1, Len(prefix)) = prefix

\* sub in s
Contains(s, sub) ==
    \E i \in 1..(Len(s) - Len(sub) + 1) : SubSeq(s, i, i + Len(sub) - 1) = sub

\* s.find(c): index of the first c, 0 when there is none
Find(s, c) ==
    IF \E i \in DOMAIN s : s[i] = c
    THEN CHOOSE i \in DOMAIN s : s[i] = c /\ \A j \in 1..(i - 1) : s[j] # c
    ELSE 0

\* s.rfind(c): index of the last c, 0 when there is none
RFind(s, c) ==
    IF \E i \in DOMAIN s : s[i] = c
    THEN CHOOSE i \in DOMAIN s : s[i] = c /\ \A j \in (i + 1)..Len(s) : s[j] # c
    ELSE 0

\* s.split(c)[-1]
SplitLast(s, c) == SubSeq(s, RFind(s, c) + 1, Len(s))

\* s.split(c)[0], also s.partition(c)[0]
SplitFirst(s, c) == IF Find(s, c) = 0 THEN s ELSE SubSeq(s, 1, Find(s, c) - 1)

\* s.rpartition(c)[2]
RPartitionTail(s, c) == SubSeq(s, RFind(s, c) + 1, Len(s))

\* str.strip() of a URL: the whitespace the inputs carry is the space
RECURSIVE LStripStr(_)
LStripStr(s) == IF s # <<>> /\ Head(s) = " " THEN LStripStr(Tail(s)) ELSE s

RECURSIVE RStripStr(_)
RStripStr(s) ==
    IF s # <<>> /\ s[Len(s)] = " " THEN RStripStr(SubSeq(s, 1, Len(s) - 1)) ELSE s

StripStr(s) == RStripStr(LStripStr(s))

IsDigit(c) == \E i \in DOMAIN Digits : Digits[i] = c
DigitVal(c) == (CHOOSE i \in DOMAIN Digits : Digits[i] = c) - 1

\* the value of a non-empty string of decimal digits
RECURSIVE DecVal(_)
DecVal(s) ==
    IF s = <<>> THEN 0 ELSE 10 * DecVal(SubSeq(s, 1, Len(s) - 1)) + DigitVal(s[Len(s)])

IsDecimal(s) == s # <<>> /\ \A i \in DOMAIN s : IsDigit(s[i])

Min(a, b) == IF a <= b THEN a ELSE b
Max(a, b) == IF a >= b THEN a ELSE b

\* s.split(c): every piece, in order
RECURSIVE SplitAll(_, _)
SplitAll(s, c) ==
    IF Find(s, c) = 0 THEN <<s>>
    ELSE <<SubSeq(s, 1, Find(s, c) - 1)>> \o SplitAll(SubSeq(s, Find(s, c) + 1, Len(s)), c)

(***************************************************************************)
(* urllib.parse.urlparse, as far as validate_url reads its result: the     *)
(* scheme and the hostname, or the ValueError it raises for a netloc with  *)
(* an unbalanced bracket.                                                  *)
(***************************************************************************)
IsAlpha(c) ==
    \/ \E i \in DOMAIN UpperAlpha : UpperAlpha[i] = c
    \/ \E i \in DOMAIN LowerAlpha : LowerAlpha[i] = c

IsSchemeChar(c) == IsAlpha(c) \/ IsDigit(c) \/ c \in {"+", "-", "."}

HasScheme(url) ==
    /\ Find(url, ":") > 1
    /\ IsAlpha(url[1])
    /\ \A j \in 1..(Find(url, ":") - 1) : IsSchemeChar(url[j])

UrlScheme(url) ==
    IF HasScheme(url) THEN Lower(SubSeq(url, 1, Find(url, ":") - 1)) ELSE <<>>

UrlAfterScheme(url) ==
    IF HasScheme(url) THEN SubSeq(url, Find(url, ":") + 1, Len(url)) ELSE url

\* the netloc: what follows "//" up to the first of "/", "?", "#"
UrlNetloc(url) ==
    LET rest == UrlAfterScheme(url) IN
    IF StartsWith(rest, <<"/", "/">>)
    THEN SplitFirst(SplitFirst(SplitFirst(SubSeq(rest, 3, Len(rest)), "/"), "?"), "#")
    ELSE <<>>

UrlParseRaises(url) ==
    LET netloc == UrlNetloc(url) IN
    ("[" \in Range(netloc)) # ("]" \in Range(netloc))

\* ParseResult.hostname: lower-cased, None when empty
UrlHostname(url) ==
    LET hostinfo == RPartitionTail(UrlNetloc(url), "@")
        host == IF "[" \in Range(hostinfo)
                THEN SplitFirst(SubSeq(hostinfo, Find(hostinfo, "[") + 1, Len(hostinfo)), "]")
                ELSE SplitFirst(hostinfo, ":")
    IN IF host = <<>> THEN None ELSE Lower(host)

(***************************************************************************)
(* IP addresses and networks: a version and the octets.                    *)
(***************************************************************************)
V4(a, b, c, d) == [v |-> 4, o |-> <<a, b, c, d>>]
V6(o) == [v |-> 6, o |-> o]
Net(addr, prefix) == [v |-> addr.v, o |-> addr.o, p |-> prefix]

Pow2(n) == 2 ^ n

\* ip_obj in private_range: same version and the same leading prefix bits
InNetwork(ip, net) ==
    /\ ip.v = net.v
    /\ \A i \in DOMAIN net.o :
          LET bits == Max(0, Min(8, net.p - 8 * (i - 1))) IN
          ip.o[i] \div Pow2(8 - bits) = net.o[i] \div Pow2(8 - bits)

PRIVATE_IP_RANGES ==
    { Net(V4(127, 0, 0, 0), 8),
      Net(V4(10, 0, 0, 0), 8),
      Net(V4(172, 16, 0, 0), 12),
      Net(V4(192, 168, 0, 0), 16),
      Net(V4(169, 254, 0, 0), 16),
      Net(V6(<<0,0,0,0,0,0,0,0,0,0,0,0,0,0,0,1>>), 128),
      Net(V6(<<254,128,0,0,0,0,0,0,0,0,0,0,0,0,0,0>>), 10) }

\* a dotted quad of decimal octets
IsIPv4Literal(hostname) ==
    LET parts == SplitAll(hostname, ".") IN
    /\ Len(parts) = 4
    /\ \A i \in 1..4 : IsDecimal(parts[i]) /\ Len(parts[i]) <= 3 /\ DecVal(parts[i]) <= 255

IPv4Literal(hostname) ==
    LET parts == SplitAll(hostname, ".") IN
    V4(DecVal(parts[1]), DecVal(parts[2]), DecVal(parts[3]), DecVal(parts[4]))

V4Only(answer) == SelectSeq(answer, LAMBDA a : a.v = 4)

\* socket.gethostbyname(hostname) when the resolver's answer for the name is
\* `answer` (the addresses in the resolver's order, empty on a failed lookup):
\* a dotted quad is returned as it is, a name gives the first IPv4 address,
\* and an IPv6 literal or a name with no IPv4 address raises.
gethostbyname(hostname, answer) ==
    IF IsIPv4Literal(hostname) THEN [ok |-> TRUE, ip |-> IPv4Literal(hostname)]
    ELSE IF ":" \in Range(hostname) \/ V4Only(answer) = <<>> THEN [ok |-> FALSE, ip |-> V4(0, 0, 0, 0)]
    ELSE [ok |-> TRUE, ip |-> Head(V4Only(answer))]

LOCALHOST == <<"l","o","c","a","l","h","o","s","t">>
ZERO_ADDR == <<"0",".","0",".","0",".","0">>

\* variant: a failed lookup lets the URL through
OnResolveErrorOpen == FALSE

\* is_private_ip: `except Exception: return True`
OnResolveError == TRUE

is_private_ip(hostname, answer) ==
    IF Lower(hostname) \in {LOCALHOST, ZERO_ADDR} THEN TRUE
    ELSE LET r == gethostbyname(hostname, answer) IN
         IF ~r.ok THEN OnResolveError
         ELSE \E net \in PRIVATE_IP_RANGES : InNetwork(r.ip, net)

HTTP == <<"h","t","t","p">>
HTTPS == <<"h","t","t","p","s">>

\* validate_url: (allowed, reason)
validate_url(url, answer) ==
    IF UrlParseRaises(url)
    THEN [allowed |-> FALSE, reason |-> "Invalid IPv6 URL"]
    ELSE IF UrlScheme(url) \notin {HTTP, HTTPS}
    THEN [allowed |-> FALSE, reason |-> "Only HTTP and HTTPS protocols are allowed"]
    ELSE IF ~Truthy(UrlHostname(url))
    THEN [allowed |-> FALSE, reason |-> "Invalid URL"]
    ELSE IF is_private_ip(UrlHostname(url), answer)
    THEN [allowed |-> FALSE,
          reason |-> "Private IPs and localhost are not allowed for security reasons"]
    ELSE [allowed |-> TRUE, reason |-> ""]

(***************************************************************************)
(* The URLs of the requests and the resolver's answers.                    *)
(***************************************************************************)
S_HTTP == <<"h","t","t","p",":","/","/">>
S_EXAMPLE == <<"e","x","a","m","p","l","e",".","c","o","m">>
S_BOOK_TXT == <<"/","b","o","o","k",".","t","x","t">>
S_BOOK_EPUB == <<"/","b","o","o","k",".","e","p","u","b">>

Urls ==
    { S_HTTP \o S_EXAMPLE \o S_BOOK_TXT,
      <<" ">> \o S_HTTP \o S_EXAMPLE \o S_BOOK_EPUB \o <<" ">>,
      S_HTTP \o S_EXAMPLE \o <<"/","d","i","r">> \o S_BOOK_EPUB \o <<"?","r","e","f","=","a","/","b">>,
      S_HTTP \o S_EXAMPLE \o S_BOOK_EPUB \o <<"?","x","=","1">>,
      S_HTTP \o S_EXAMPLE \o S_BOOK_EPUB \o <<"#","t","o","c">>,
      <<"h","t","t","p","s",":","/","/","u","@">> \o S_EXAMPLE \o <<":","8","0","/","d","a","t","a">>,
      <<"H","T","T","P",":","/","/","L","o","c","a","l","H","o","s","t">> \o S_BOOK_TXT,
      <<"H","t","t","p",":","/","/","E","X","A","M","P","L","E",".","c","o","m">> \o S_BOOK_TXT,
      S_HTTP \o LOCALHOST \o <<".">> \o S_BOOK_TXT,
      S_HTTP \o ZERO_ADDR \o S_BOOK_TXT,
      S_HTTP \o <<"1","0",".","0",".","0",".","1">> \o S_BOOK_TXT,
      S_HTTP \o <<"8",".","8",".","8",".","8">> \o S_BOOK_TXT,
      S_HTTP \o <<"[",":",":","1","]">> \o S_BOOK_TXT,
      S_HTTP \o <<"[",":",":","1">> \o S_BOOK_TXT,
      S_HTTP \o S_BOOK_TXT,
      <<"f","t","p",":","/","/">> \o S_EXAMPLE \o S_BOOK_TXT,
      <<"f","i","l","e",":","/","/">> \o S_BOOK_TXT,
      S_EXAMPLE \o S_BOOK_TXT }

PUBLIC_A == V4(93, 184, 216, 34)
V6_LINK_LOCAL == V6(<<254,128,0,0,0,0,0,0,0,0,0,0,0,0,0,1>>)
V6_LOOPBACK == V6(<<0,0,0,0,0,0,0,0,0,0,0,0,0,0,0,1>>)
V6_PUBLIC == V6(<<32,1,13,184,0,0,0,0,0,0,0,0,0,0,0,1>>)

\* what the resolver may answer for a name: a failed lookup (no address), one
\* address on either side of every range boundary, several addresses
DnsAnswers ==
    { <<>> }
    \cup { <<a>> : a \in { PUBLIC_A, V4(126, 255, 255, 255), V4(127, 0, 0, 1),
                          V4(127, 255, 255, 255), V4(128, 0, 0, 0),
                          V4(10, 1, 2, 3), V4(11, 0, 0, 0),
                          V4(172, 15, 255, 255), V4(172, 16, 0, 0),
                          V4(172, 31, 255, 255), V4(172, 32, 0, 0),
                          V4(192, 168, 1, 1), V4(192, 169, 0, 0),
                          V4(169, 254, 169, 254), V4(169, 255, 0, 0),
                          V6_LINK_LOCAL, V6_LOOPBACK, V6_PUBLIC } }
    \cup { <<PUBLIC_A, V4(10, 1, 2, 3)>>, <<V4(10, 1, 2, 3), PUBLIC_A>>,
           <<PUBLIC_A, V6_LINK_LOCAL>>, <<V6_LOOPBACK, PUBLIC_A>>,
           <<PUBLIC_A, V4(128, 0, 0, 0)>> }

(***************************************************************************)
(* Text: sequences of code points.                                         *)
(***************************************************************************)
\* the code points str.isspace() accepts, which strip() and split() remove
WHITESPACE ==
    {9, 10, 11, 12, 13, 28, 29, 30, 31, 32, 133, 160, 5760, 8232, 8233, 8239, 8287, 12288}
    \cup (8192..8202)

\* the line boundaries of str.splitlines()
LINE_BREAKS == {10, 11, 12, 13, 28, 29, 30, 133, 8232, 8233}

IsSpace(c) == c \in WHITESPACE

RECURSIVE LStrip(_)
LStrip(t) == IF t # <<>> /\ IsSpace(Head(t)) THEN LStrip(Tail(t)) ELSE t

RECURSIVE RStrip(_)
RStrip(t) == IF t # <<>> /\ IsSpace(t[Len(t)]) THEN RStrip(SubSeq(t, 1, Len(t) - 1)) ELSE t

\* str.strip()
Strip(t) == RStrip(LStrip(t))

\* len(text.split()): the maximal runs of non-whitespace
WordCount(t) ==
    Cardinality({i \in DOMAIN t : ~IsSpace(t[i]) /\ (i = 1 \/ IsSpace(t[i - 1]))})

\* text.splitlines(); "\r\n" gives one more empty line here than in Python,
\* and empty lines are dropped by the caller
RECURSIVE SplitLines(_)
SplitLines(t) ==
    IF \E i \in DOMAIN t : t[i] \in LINE_BREAKS
    THEN LET i == CHOOSE k \in DOMAIN t :
                     t[k] \in LINE_BREAKS /\ \A j \in 1..(k - 1) : t[j] \notin LINE_BREAKS
         IN <<SubSeq(t, 1, i - 1)>> \o SplitLines(SubSeq(t, i + 1, Len(t)))
    ELSE IF t = <<>> THEN <<>> ELSE <<t>>

\* line.split("  "): the pieces between the occurrences of two spaces, left to right
RECURSIVE SplitDoubleSpace(_)
SplitDoubleSpace(t) ==
    IF \E i \in 1..(Len(t) - 1) : t[i] = 32 /\ t[i + 1] = 32
    THEN LET i == CHOOSE k \in 1..(Len(t) - 1) :
                     /\ t[k] = 32 /\ t[k + 1] = 32
                     /\ \A j \in 1..(k - 1) : ~(t[j] = 32 /\ t[j + 1] = 32)
         IN <<SubSeq(t, 1, i - 1)>> \o SplitDoubleSpace(SubSeq(t, i + 2, Len(t)))
    ELSE <<t>>

\* the stripped phrases of every stripped line, in order
RECURSIVE Phrases(_)
Phrases(lines) ==
    IF lines = <<>> THEN <<>>
    ELSE LET ps == SplitDoubleSpace(Strip(Head(lines))) IN
         [k \in DOMAIN ps |-> Strip(ps[k])] \o Phrases(Tail(lines))

\* ' '.join(chunks)
RECURSIVE JoinSpace(_)
JoinSpace(chunks) ==
    IF chunks = <<>> THEN <<>>
    ELSE IF Len(chunks) = 1 THEN Head(chunks)
    ELSE Head(chunks) \o <<32>> \o JoinSpace(Tail(chunks))

\* extract_text_from_html, from the text soup.get_text() gives for the markup
\* left after the script and style elements are removed
extract_text_from_html(soup_text) ==
    JoinSpace(SelectSeq(Phrases(SplitLines(soup_text)), LAMBDA c : c # <<>>))

(***************************************************************************)
(* bytes.decode                                                            *)
(***************************************************************************)
IsCont(b) == 128 <= b /\ b <= 191

\* the width of the UTF-8 sequence that starts b, 0 when it is malformed
Utf8Width(b) ==
    LET b1 == b[1] IN
    IF b1 < 128 THEN 1
    ELSE IF 194 <= b1 /\ b1 <= 223 /\ Len(b) >= 2 /\ IsCont(b[2]) THEN 2
    ELSE IF /\ 224 <= b1 /\ b1 <= 239 /\ Len(b) >= 3 /\ IsCont(b[2]) /\ IsCont(b[3])
            /\ (b1 = 224 => b[2] >= 160) /\ (b1 = 237 => b[2] <= 159) THEN 3
    ELSE IF /\ 240 <= b1 /\ b1 <= 244 /\ Len(b) >= 4
            /\ IsCont(b[2]) /\ IsCont(b[3]) /\ IsCont(b[4])
            /\ (b1 = 240 => b[2] >= 144) /\ (b1 = 244 => b[2] <= 143) THEN 4
    ELSE 0

Utf8CodePoint(b) ==
    CASE Utf8Width(b) = 1 -> b[1]
      [] Utf8Width(b) = 2 -> (b[1] - 192) * 64 + (b[2] - 128)
      [] Utf8Width(b) = 3 -> (b[1] - 224) * 4096 + (b[2] - 128) * 64 + (b[3] - 128)
      [] OTHER -> (b[1] - 240) * 262144 + (b[2] - 128) * 4096 + (b[3] - 128) * 64 + (b[4] - 128)

\* whether content.decode('utf-8') succeeds
RECURSIVE Utf8Valid(_)
Utf8Valid(b) ==
    \/ b = <<>>
    \/ Utf8Width(b) > 0 /\ Utf8Valid(SubSeq(b, Utf8Width(b) + 1, Len(b)))

\* content.decode('utf-8') of well-formed bytes
RECURSIVE Utf8Decode(_)
Utf8Decode(b) ==
    IF b = <<>> THEN <<>>
    ELSE <<Utf8CodePoint(b)>> \o Utf8Decode(SubSeq(b, Utf8Width(b) + 1, Len(b)))

\* content.decode('latin-1'): every byte is the code point of the same value
Latin1Decode(b) == [i \in DOMAIN b |-> b[i]]

(***************************************************************************)
(* Chapter and the parsers.  A parser's result is the chapters it returns  *)
(* or the detail of the HTTPException it raises.                           *)
(***************************************************************************)
Chapter(title, text) == [title |-> title, text |-> text, word_count |-> WordCount(text)]

UNTITLED == <<"U","n","t","i","t","l","e","d">>

Returned(chapters) == [ok |-> TRUE, detail |-> "", chapters |-> chapters]
Raised(detail) == [ok |-> FALSE, detail |-> detail, chapters |-> <<>>]

parse_txt_file(content) ==
    LET text == Strip(IF Utf8Valid(content) THEN Utf8Decode(content)
                      ELSE Latin1Decode(content))
    IN IF text = <<>> THEN Raised("File is empty")
       ELSE Returned(<<Chapter(UNTITLED, text)>>)

\* str(n) for n >= 0
RECURSIVE DecStr(_)
DecStr(n) ==
    IF n < 10 THEN <<Digits[n + 1]>> ELSE DecStr(n \div 10) \o <<Digits[(n % 10) + 1]>>

S_CHAPTER == <<"C","h","a","p","t","e","r"," ">>
S_HTML == <<".","h","t","m","l">>
S_XHTML == <<".","x","h","t","m","l">>

MIN_CHAPTER_LEN == 100

\* variant: a text of exactly 100 characters is skipped too
TooShortInclusive(text) == Len(Strip(text)) <= MIN_CHAPTER_LEN

\* `if len(text.strip()) < 100: continue`
TooShort(text) == Len(Strip(text)) < MIN_CHAPTER_LEN

\* the title of an accepted item
ChapterTitle(name, chapter_num) ==
    IF ~Truthy(name) \/ EndsWith(name, S_HTML) \/ EndsWith(name, S_XHTML)
    THEN S_CHAPTER \o DecStr(chapter_num)
    ELSE name

\* the loop over book.get_items(): the chapters, or the failure of an item
\* whose content is not UTF-8
RECURSIVE WalkItems(_, _, _)
WalkItems(items, chapters, chapter_num) ==
    IF items = <<>> THEN [ok |-> TRUE, chapters |-> chapters]
    ELSE LET item == Head(items) IN
         IF ~item.doc THEN WalkItems(Tail(items), chapters, chapter_num)
         ELSE IF ~item.decodes THEN [ok |-> FALSE, chapters |-> <<>>]
         ELSE LET text == extract_text_from_html(item.soup_text) IN
              IF TooShort(text) THEN WalkItems(Tail(items), chapters, chapter_num)
              ELSE WalkItems(Tail(items),
                             Append(chapters, Chapter(ChapterTitle(item.name, chapter_num), text)),
                             chapter_num + 1)

\* parse_epub_file on the staged bytes `book` (what epub.read_epub makes of
\* them): the result, and whether the temporary file of the call is still there
parse_epub_file(book) ==
    IF ~book.opens
    THEN [res |-> Raised("Failed to parse EPUB file"), tmp_left |-> TRUE]
    ELSE LET w == WalkItems(book.items, <<>>, 1) IN
         IF ~w.ok THEN [res |-> Raised("Failed to parse EPUB file"), tmp_left |-> TRUE]
         ELSE IF w.chapters = <<>>
         THEN [res |-> Raised("No readable content found in EPUB file"), tmp_left |-> FALSE]
         ELSE [res |-> Returned(w.chapters), tmp_left |-> FALSE]

(***************************************************************************)
(* detect_format                                                           *)
(***************************************************************************)
S_TXT == <<".","t","x","t">>
S_EPUB == <<".","e","p","u","b">>
S_TEXT_PLAIN == <<"t","e","x","t","/","p","l","a","i","n">>
S_EPUB_WORD == <<"e","p","u","b">>

UNSUPPORTED == "Unsupported file format. Supported: .txt, .epub"

Detected(fmt) == [ok |-> TRUE, format |-> fmt, detail |-> ""]
Undetected == [ok |-> FALSE, format |-> "", detail |-> UNSUPPORTED]

\* variant: the content type consulted before the extension
detect_format_type_first(filename, content_type) ==
    IF Truthy(content_type) /\ Contains(content_type, S_TEXT_PLAIN) THEN Detected("txt")
    ELSE IF Truthy(content_type) /\ Contains(content_type, S_EPUB_WORD) THEN Detected("epub")
    ELSE IF EndsWith(Lower(filename), S_TXT) THEN Detected("txt")
    ELSE IF EndsWith(Lower(filename), S_EPUB) THEN Detected("epub")
    ELSE Undetected

\* detect_format of a filename that is a str
detect_format(filename, content_type) ==
    LET filename_lower == Lower(filename) IN
    IF EndsWith(filename_lower, S_TXT) THEN Detected("txt")
    ELSE IF EndsWith(filename_lower, S_EPUB) THEN Detected("epub")
    ELSE IF Truthy(content_type) /\ Contains(content_type, S_TEXT_PLAIN) THEN Detected("txt")
    ELSE IF Truthy(content_type) /\ Contains(content_type, S_EPUB_WORD) THEN Detected("epub")
    ELSE Undetected

(***************************************************************************)
(* Request bodies.  The bytes of a body are `pad` ASCII spaces followed by *)
(* a document: a text (its bytes) or an EPUB archive (what epub.read_epub  *)
(* makes of it).  Leading spaces change neither parser's result: decode    *)
(* keeps them and strip() removes them, and a zip archive is read from its *)
(* end.  So len(content) is exact while 50 MiB of padding costs nothing.   *)
(***************************************************************************)
TextDoc(bytes) ==
    [kind |-> "text", bytes |-> bytes, size |-> Len(bytes), opens |-> FALSE, items |-> <<>>]

\* an archive: its first bytes are the zip signature "PK\x03\x04"
EpubDoc(opens, items) ==
    [kind |-> "epub", bytes |-> <<80, 75, 3, 4>>, size |-> 4096, opens |-> opens, items |-> items]

EmptyDoc == TextDoc(<<>>)

Content(pad, doc) == [pad |-> pad, doc |-> doc]
EmptyContent == Content(0, EmptyDoc)

\* len(content)
ByteLen(content) == content.pad + content.doc.size

\* the text bytes a parser decodes, the leading padding left out
BodyBytes(content) == content.doc.bytes

\* an item of the package: a document or not, its name, whether its content
\* decodes as UTF-8, and the text soup.get_text() gives for it
Item(doc, name, decodes, soup_text) ==
    [doc |-> doc, name |-> name, decodes |-> decodes, soup_text |-> soup_text]

\* n characters of five-letter words
Prose(n) == [i \in 1..n |-> IF i % 6 = 0 /\ i < n THEN 32 ELSE 97]

\* the same prose as the markup indents it
Indented(n) == <<10, 32, 32>> \o Prose(n) \o <<32, 32, 10, 9>>

N_CH_XHTML == <<"c","h",".","x","h","t","m","l">>
N_A_HTML == <<"a",".","h","t","m","l">>
N_INTRO == <<"i","n","t","r","o">>
N_UPPER_HTML == <<"T","O","C",".","H","T","M","L">>

MAX_FILE_SIZE == 50 * 1024 * 1024
CHUNK_SIZE == 8192

(***************************************************************************)
(* The inputs: documents, uploads, response headers.                       *)
(***************************************************************************)
MaxChunks == 2
MaxItems == 2
MaxShortChunks == 2

Names == {None, <<>>, N_CH_XHTML, N_A_HTML, N_INTRO, N_UPPER_HTML}

ItemVariants ==
    { Item(TRUE, n, TRUE, t) : n \in Names, t \in {Prose(99), Prose(100)} }
    \cup { Item(FALSE, N_INTRO, TRUE, Prose(100)),
           Item(TRUE, N_CH_XHTML, TRUE, Indented(99)),
           Item(TRUE, N_INTRO, TRUE, Indented(100)),
           Item(TRUE, N_CH_XHTML, FALSE, <<>>) }

\* every package of at most MaxItems items
Books == { EpubDoc(TRUE, items) : items \in UNION {[1..n -> ItemVariants] : n \in 0..MaxItems} }

TextDocs ==
    { TextDoc(b) : b \in { <<>>, <<32, 10>>, <<194, 160>>, <<160>>, <<255>>,
                           <<97, 32, 98>>, <<32, 97, 10>> } }

EpubDocs ==
    { EpubDoc(FALSE, <<>>),
      EpubDoc(TRUE, <<>>),
      EpubDoc(TRUE, <<Item(TRUE, N_CH_XHTML, TRUE, Prose(50))>>),
      EpubDoc(TRUE, <<Item(TRUE, N_A_HTML, TRUE, Prose(50)),
                      Item(TRUE, N_CH_XHTML, TRUE, Prose(500))>>),
      EpubDoc(TRUE, <<Item(TRUE, N_INTRO, TRUE, Prose(100)),
                      Item(TRUE, N_CH_XHTML, FALSE, <<>>)>>) }

Docs == TextDocs \cup EpubDocs

T_PLAIN == S_TEXT_PLAIN \o <<";"," ","c","h","a","r","s","e","t","=","u","t","f","-","8">>
T_EPUB == <<"a","p","p","l","i","c","a","t","i","o","n","/","e","p","u","b","+","z","i","p">>
T_OCTET == <<"a","p","p","l","i","c","a","t","i","o","n","/","o","c","t","e","t","-","s","t","r","e","a","m">>

T_PLAIN_UPPER == <<"T","E","X","T","/","P","L","A","I","N">>

ContentTypes == {None, <<>>, T_PLAIN, T_EPUB, T_OCTET, T_PLAIN_UPPER}

\* Content-Length header values: absent, empty, not a number, and numbers
\* around the ceiling
ContentLengths ==
    { None, <<>>, <<"a","b","c">>, <<"1","0","2","4">>,
      DecStr(MAX_FILE_SIZE), DecStr(MAX_FILE_SIZE + 1) }

Headers(cl, ct) == [content_length |-> cl, content_type |-> ct]
NoResponse == Headers(None, None)
ResponseHeaders == { Headers(cl, ct) : cl \in ContentLengths, ct \in ContentTypes }

F_DATA == <<"d","a","t","a">>
F_BOOK_UPPER == <<"b","o","o","k",".","E","P","U","B">>
F_NOTES == <<"n","o","t","e","s",".","t","x","t">>
F_BOTH == <<"a",".","t","x","t",".","e","p","u","b">>
F_NO_DOT == <<"b","o","o","k","e","p","u","b">>
F_README_UPPER == <<"R","E","A","D","M","E",".","T","X","T">>

Filenames == {None, <<>>, F_DATA, F_BOOK_UPPER, F_NOTES, F_BOTH, F_NO_DOT, F_README_UPPER}

UploadFile(filename, content_type, content) ==
    [present |-> TRUE, filename |-> filename, content_type |-> content_type,
     content |-> content]
NoFile ==
    [present |-> FALSE, filename |-> None, content_type |-> None, content |-> EmptyContent]

UploadPads == {0, MAX_FILE_SIZE - 4096, MAX_FILE_SIZE}

Uploads ==
    { UploadFile(f, ct, Content(pad, doc)) :
        f \in Filenames, ct \in ContentTypes, pad \in UploadPads, doc \in Docs }

Request(u, file) == [url |-> u, file |-> file]

Requests ==
    { Request(u, NoFile) : u \in Urls \cup {None, <<>>} }
    \cup { Request(None, f) : f \in Uploads }

\* the sizes of the chunks iter_content(chunk_size=8192) yields
ChunkSizes == {1, CHUNK_SIZE \div 2, CHUNK_SIZE}

\* what the resolver answers for a name: the name localhost, with or without
\* the root dot, has the loopback address or no answer (RFC 6761)
Resolver(hostname) ==
    IF hostname \in {LOCALHOST, LOCALHOST \o <<".">>}
    THEN { <<>>, <<V4(127, 0, 0, 1)>> }
    ELSE DnsAnswers

\* whether validate_url gets as far as asking the resolver
AsksResolver(u) ==
    /\ ~UrlParseRaises(u)
    /\ UrlScheme(u) \in {HTTP, HTTPS}
    /\ Truthy(UrlHostname(u))
    /\ Lower(UrlHostname(u)) \notin {LOCALHOST, ZERO_ADDR}
    /\ ~IsIPv4Literal(UrlHostname(u))
    /\ ":" \notin Range(UrlHostname(u))

AnswersFor(u) == IF AsksResolver(u) THEN Resolver(UrlHostname(u)) ELSE { <<>> }

(***************************************************************************)
(* process_file                                                            *)
(***************************************************************************)
VARIABLES
    pc,            \* the position in process_file
    request,       \* the request: the url of its JSON body, its upload
    url,           \* url
    resolved,      \* the resolver's answer validate_url saw
    validation,    \* (is_valid, error_msg)
    response,      \* response.headers
    body_left,     \* chunks the server may still send, -1: no limit
    content,       \* content
    filename,      \* the filename handed to detect_format
    content_type,  \* the content type handed to detect_format
    file_format,   \* file_format
    source,        \* source
    chapters,      \* chapters
    tmp_files,     \* temporary files on disk
    result,        \* the returned body
    exc,           \* the exception that left process_file
    steps          \* the steps taken, in order

vars == <<pc, request, url, resolved, validation, response, body_left, content,
          filename, content_type, file_format, source, chapters, tmp_files,
          result, exc, steps>>

Fail(error, message) ==
    [success |-> FALSE, error |-> error, message |-> message, chapters |-> <<>>,
     total_words |-> 0, source |-> None, format |-> ""]

Pending == Fail("", "")

TOO_LARGE == Fail("File too large", "File exceeds 50MB limit")

\* variant: a total of exactly MAX_FILE_SIZE is refused too
ExceedsLimitInclusive(n) == n >= MAX_FILE_SIZE

\* `> MAX_FILE_SIZE`
ExceedsLimit(n) == n > MAX_FILE_SIZE

\* variant: the result of the validation is ignored
RejectedNever(v) == FALSE

\* `if not is_valid: return ...`
Rejected(v) == ~v.allowed

RECURSIVE SumWords(_)
SumWords(chs) == IF chs = <<>> THEN 0 ELSE Head(chs).word_count + SumWords(Tail(chs))

InitLocals ==
    /\ url = None
    /\ resolved = <<>>
    /\ validation = [allowed |-> FALSE, reason |-> ""]
    /\ response = NoResponse
    /\ body_left = 0
    /\ content = EmptyContent
    /\ filename = None
    /\ content_type = None
    /\ file_format = ""
    /\ source = None
    /\ chapters = <<>>
    /\ tmp_files = 0
    /\ result = Pending
    /\ exc = ""
    /\ steps = <<>>

Init ==
    /\ pc = "start"
    /\ request \in Requests
    /\ InitLocals

Return(r) == pc' = "done" /\ result' = r /\ exc' = exc
Escape(e) == pc' = "crashed" /\ exc' = e /\ result' = result
Goto(p) == pc' = p /\ result' = result /\ exc' = exc

\* lines 235-247, 311, 333-338: the mode of the request
Receive ==
    /\ pc = "start"
    /\ IF Truthy(request.url)
       THEN url' = StripStr(request.url) /\ Goto("validate")
       ELSE IF request.file.present
       THEN url' = url /\ Goto("upload")
       ELSE url' = url
            /\ Return(Fail("Missing input", "Please provide either a URL or a file upload"))
    /\ UNCHANGED <<request, resolved, validation, response, body_left, content, filename,
                   content_type, file_format, source, chapters, tmp_files, steps>>

\* lines 250-257
Validate ==
    /\ pc = "validate"
    /\ \E answer \in AnswersFor(url) :
          LET v == validate_url(url, answer) IN
          /\ resolved' = answer
          /\ validation' = v
          /\ IF Rejected(v) THEN Return(Fail("Invalid URL", v.reason)) ELSE Goto("fetch")
    /\ steps' = Append(steps, "validate")
    /\ UNCHANGED <<request, url, response, body_left, content, filename, content_type,
                   file_format, source, chapters, tmp_files>>

\* lines 261-271: the request, raise_for_status and the declared size, for
\* a server that answers with one of `headers` and sends at most `budget`
\* chunks (-1: as many as it likes)
FetchFrom(headers, budget) ==
    /\ pc = "fetch"
    /\ steps' = Append(steps, "fetch")
    /\ resolved' = <<>>
    /\ \/ /\ Return(Fail("Timeout", "Request timed out. Please try again."))
          /\ UNCHANGED <<response, body_left>>
       \/ /\ Return(Fail("Fetch failed", "Failed to fetch URL"))
          /\ UNCHANGED <<response, body_left>>
       \/ \E h \in headers :
             /\ response' = h
             /\ body_left' = budget
             /\ IF ~Truthy(h.content_length) THEN Goto("read")
                ELSE IF ~IsDecimal(h.content_length) THEN Escape("ValueError")
                ELSE IF ExceedsLimit(DecVal(h.content_length)) THEN Return(TOO_LARGE)
                ELSE Goto("read")
    /\ UNCHANGED <<request, url, validation, content, filename, content_type, file_format,
                   source, chapters, tmp_files>>

Fetch == FetchFrom(ResponseHeaders, MaxChunks)

\* a server that declares no length and never stops sending
FetchStream == FetchFrom({Headers(None, T_PLAIN)}, -1)

Consume ==
    body_left' = IF body_left > 0 THEN body_left - 1 ELSE body_left

\* lines 275-282: one chunk of padding, of one of `sizes`
ReadChunkOf(sizes) ==
    /\ pc = "read"
    /\ body_left # 0
    /\ \E size \in sizes :
          /\ content' = Content(content.pad + size, content.doc)
          /\ IF ExceedsLimit(ByteLen(content')) THEN Return(TOO_LARGE) ELSE Goto("read")
    /\ Consume
    /\ UNCHANGED <<request, url, resolved, validation, response, filename, content_type,
                   file_format, source, chapters, tmp_files, steps>>

ReadChunk == body_left > 0 /\ ReadChunkOf(ChunkSizes)

\* the endless body comes in full and half chunks and, up to MaxShortChunks
\* times, in a chunk of one byte (the one-byte chunks read so far are the
\* remainder of the total)
ReadStreamChunk ==
    /\ body_left < 0
    /\ ReadChunkOf({CHUNK_SIZE \div 2, CHUNK_SIZE}
                   \cup IF content.pad % (CHUNK_SIZE \div 2) < MaxShortChunks
                        THEN {1} ELSE {})

\* lines 275-282: the chunk that holds the document, the last of the body
ReadDocChunk ==
    /\ pc = "read"
    /\ body_left > 0
    /\ \E doc \in Docs \ {EmptyDoc} :
          /\ content' = Content(content.pad, doc)
          /\ IF ExceedsLimit(ByteLen(content')) THEN Return(TOO_LARGE) ELSE Goto("read")
    /\ body_left' = 0
    /\ UNCHANGED <<request, url, resolved, validation, response, filename, content_type,
                   file_format, source, chapters, tmp_files, steps>>

\* line 275: the transport fails during the body (a requests.RequestException)
ReadFails ==
    /\ pc = "read"
    /\ body_left # 0
    /\ Return(Fail("Fetch failed", "Failed to fetch URL"))
    /\ UNCHANGED <<request, url, resolved, validation, response, body_left, content,
                   filename, content_type, file_format, source, chapters, tmp_files, steps>>

\* line 275: the body ends
EndBody ==
    /\ pc = "read"
    /\ Goto("detect")
    /\ UNCHANGED <<request, url, resolved, validation, response, body_left, content,
                   filename, content_type, file_format, source, chapters, tmp_files, steps>>

\* line 285
UrlFilename(u) == SplitFirst(SplitLast(u, "/"), "?")

\* lines 284-308
Detect ==
    /\ pc = "detect"
    /\ steps' = Append(steps, "detect")
    /\ filename' = UrlFilename(url)
    /\ content_type' = response.content_type
    /\ LET d == detect_format(filename', content_type') IN
       IF d.ok
       THEN file_format' = d.format /\ source' = url /\ Goto("parse")
       ELSE file_format' = file_format /\ source' = source
            /\ Return(Fail("Invalid format", d.detail))
    /\ UNCHANGED <<request, url, resolved, validation, response, body_left, content,
                   chapters, tmp_files>>

\* lines 312-319
UploadRead ==
    /\ pc = "upload"
    /\ content' = request.file.content
    /\ IF ExceedsLimit(ByteLen(content')) THEN Return(TOO_LARGE) ELSE Goto("upload_detect")
    /\ UNCHANGED <<request, url, resolved, validation, response, body_left, filename,
                   content_type, file_format, source, chapters, tmp_files, steps>>

\* lines 321-331: filename.lower() of a filename that is None raises
UploadDetect ==
    /\ pc = "upload_detect"
    /\ steps' = Append(steps, "detect")
    /\ filename' = request.file.filename
    /\ content_type' = request.file.content_type
    /\ IF filename' = None
       THEN file_format' = file_format /\ source' = source /\ Escape("AttributeError")
       ELSE LET d == detect_format(filename', content_type') IN
            IF d.ok
            THEN file_format' = d.format /\ source' = request.file.filename /\ Goto("parse")
            ELSE file_format' = file_format /\ source' = source
                 /\ Return(Fail("Invalid format", d.detail))
    /\ UNCHANGED <<request, url, resolved, validation, response, body_left, content,
                   chapters, tmp_files>>

\* lines 341-351, 371-382: the parser for the format
Parse ==
    /\ pc = "parse"
    /\ steps' = Append(steps, "parse")
    /\ LET e == parse_epub_file(content.doc)
           r == IF file_format = "txt" THEN parse_txt_file(BodyBytes(content)) ELSE e.res
       IN /\ tmp_files' = IF file_format = "epub" /\ e.tmp_left
                          THEN tmp_files + 1 ELSE tmp_files
          /\ IF file_format \notin {"txt", "epub"}
             THEN chapters' = chapters
                  /\ Return(Fail("Unsupported format", "Format is not supported"))
             ELSE IF r.ok
             THEN chapters' = r.chapters /\ Goto("assemble")
             ELSE chapters' = chapters /\ Return(Fail("Parse error", r.detail))
    /\ UNCHANGED <<request, url, resolved, validation, response, body_left, content,
                   filename, content_type, file_format, source>>

\* lines 353-369
Assemble ==
    /\ pc = "assemble"
    /\ steps' = Append(steps, "assemble")
    /\ Return([success |-> TRUE, error |-> "", message |-> "", chapters |-> chapters,
               total_words |-> SumWords(chapters), source |-> source,
               format |-> file_format])
    /\ UNCHANGED <<request, url, resolved, validation, response, body_left, content,
                   filename, content_type, file_format, source, chapters, tmp_files>>

Next ==
    \/ Receive
    \/ Validate
    \/ Fetch
    \/ ReadChunk
    \/ ReadDocChunk
    \/ ReadFails
    \/ EndBody
    \/ Detect
    \/ UploadRead
    \/ UploadDetect
    \/ Parse
    \/ Assemble

Spec == Init /\ [][Next]_vars

(***************************************************************************)
(* A URL request to a server that streams without declaring a length.      *)
(***************************************************************************)
InitStream ==
    /\ pc = "start"
    /\ request = Request(S_HTTP \o S_EXAMPLE \o S_BOOK_TXT, NoFile)
    /\ InitLocals

NextStream ==
    \/ Receive
    \/ Validate
    \/ FetchStream
    \/ ReadStreamChunk
    \/ ReadFails
    \/ EndBody
    \/ Detect
    \/ Parse

SpecStream == InitStream /\ [][NextStream]_vars

(***************************************************************************)
(* Uploads of every EPUB package of at most MaxItems items.                *)
(***************************************************************************)
InitEpub ==
    /\ pc = "start"
    /\ request \in { Request(None, UploadFile(F_BOOK_UPPER, T_EPUB, Content(0, book))) :
                       book \in Books }
    /\ InitLocals

NextEpub ==
    \/ Receive
    \/ UploadRead
    \/ UploadDetect
    \/ Parse
    \/ Assemble

SpecEpub == InitEpub /\ [][NextEpub]_vars

(***************************************************************************)
(* The properties.                                                         *)
(***************************************************************************)
UrlMode == Truthy(request.url)
Did(step) == step \in Range(steps)

\* the ranges of the SSRF block list, octet by octet
Blocked(a) ==
    \/ /\ a.v = 4
       /\ \/ a.o[1] = 127
          \/ a.o[1] = 10
          \/ a.o[1] = 172 /\ a.o[2] >= 16 /\ a.o[2] <= 31
          \/ a.o[1] = 192 /\ a.o[2] = 168
          \/ a.o[1] = 169 /\ a.o[2] = 254
    \/ /\ a.v = 6
       /\ \/ a.o = <<0,0,0,0,0,0,0,0,0,0,0,0,0,0,0,1>>
          \/ a.o[1] = 254 /\ a.o[2] >= 128 /\ a.o[2] <= 191

Host == UrlHostname(url)
JustValidated == steps = <<"validate">>

\* the addresses the host name of the URL stands for
HostAddresses ==
    IF ~Truthy(Host) THEN {}
    ELSE IF IsIPv4Literal(Host) THEN {IPv4Literal(Host)}
    ELSE Range(resolved)

HostWithoutRootDot ==
    IF Truthy(Host) /\ Host[Len(Host)] = "." THEN SubSeq(Host, 1, Len(Host) - 1) ELSE Host

WellFormed(r) ==
    IF r.success
    THEN r.error = "" /\ r.format \in {"txt", "epub"} /\ r.chapters # <<>>
    ELSE r.error # "" /\ r.message # "" /\ r.chapters = <<>>

\* C1: no exception ever escapes process_file, and what it returns is
\* well formed: the success shape or the failure shape {success=false,
\* error, message}.
C1_NoExceptionEscapes ==
    /\ pc # "crashed"
    /\ pc = "done" => WellFormed(result)

\* C2: once parse_epub_file has returned or raised, the temporary file it
\* created no longer exists.
C2_TempFileReleased == Did("parse") => tmp_files = 0

ORDER == <<"validate", "fetch", "detect", "parse", "assemble">>

\* C3: in URL mode the steps run in the order validate, fetch, detect,
\* parse, assemble; a fetch happens only after validate_url allowed the
\* URL; and when it did not, nothing is fetched, detected or parsed and the
\* result is the Invalid URL failure.
C3_ValidateGatesFetch ==
    UrlMode =>
        /\ Len(steps) <= Len(ORDER) /\ steps = SubSeq(ORDER, 1, Len(steps))
        /\ Did("fetch") => validation.allowed
        /\ (Did("validate") /\ ~validation.allowed) =>
              /\ steps = <<"validate">>
              /\ pc = "done"
              /\ result = Fail("Invalid URL", validation.reason)
              /\ response = NoResponse
              /\ content = EmptyContent
              /\ file_format = ""
              /\ chapters = <<>>

C3_Witness ==
    /\ UrlMode
    /\ pc = "done"
    /\ steps = <<"validate">>
    /\ ~validation.allowed
    /\ \E a \in Range(resolved) : Blocked(a)
    /\ result.error = "Invalid URL"

\* C4: a URL whose host resolves to addresses of which at least one is in a
\* blocked range, or whose host is localhost or 0.0.0.0 in any casing and
\* with or without a trailing dot, is not allowed.
C4_AnyBlockedAddressRejects ==
    (JustValidated /\ UrlScheme(url) \in {HTTP, HTTPS}) =>
        ((\/ \E a \in HostAddresses : Blocked(a)
          \/ HostWithoutRootDot \in {LOCALHOST, ZERO_ADDR})
            => ~validation.allowed)

ResolutionFails ==
    /\ Truthy(Host)
    /\ ~IsIPv4Literal(Host)
    /\ \A i \in DOMAIN resolved : resolved[i].v # 4

ResolvedAddress ==
    IF IsIPv4Literal(Host) THEN IPv4Literal(Host)
    ELSE resolved[CHOOSE i \in DOMAIN resolved :
                      resolved[i].v = 4 /\ \A j \in 1..(i - 1) : resolved[j].v # 4]

\* C5: validate_url fails closed.  When URL parsing raises or the host name
\* does not resolve, the URL is not allowed; and it is allowed only when
\* the scheme is http or https, a host name is present, and the resolution
\* gave an address outside every blocked range.
C5_FailsClosed ==
    JustValidated =>
        /\ UrlParseRaises(url) => ~validation.allowed
        /\ ResolutionFails => ~validation.allowed
        /\ validation.allowed =>
              /\ UrlScheme(url) \in {HTTP, HTTPS}
              /\ Truthy(Host)
              /\ ~ResolutionFails
              /\ ~Blocked(ResolvedAddress)

C5_Witness ==
    /\ JustValidated
    /\ AsksResolver(url)
    /\ ResolutionFails
    /\ ~validation.allowed
    /\ pc = "done"

\* C6: with no Content-Length declared, the buffer never holds more than
\* MAX_FILE_SIZE + 8192 bytes; the read goes on only while the total is at
\* most MAX_FILE_SIZE; the chunk that takes the total past MAX_FILE_SIZE
\* ends the request with File too large, nothing detected or parsed; and a
\* body of at most MAX_FILE_SIZE bytes is never rejected as too large.
C6_StreamCeiling ==
    (UrlMode /\ ~Truthy(response.content_length)) =>
        /\ ByteLen(content) <= MAX_FILE_SIZE + 8192
        /\ pc = "read" => ByteLen(content) <= MAX_FILE_SIZE
        /\ ByteLen(content) > MAX_FILE_SIZE =>
              /\ pc = "done"
              /\ result = TOO_LARGE
              /\ steps = <<"validate", "fetch">>
        /\ result.error = "File too large" => ByteLen(content) > MAX_FILE_SIZE
        /\ Did("detect") => ByteLen(content) <= MAX_FILE_SIZE

C6_Witness ==
    /\ UrlMode
    /\ response.content_length = None
    /\ pc = "done"
    /\ result = TOO_LARGE
    /\ ByteLen(content) = MAX_FILE_SIZE + 8192

HasExtension(fn, ext) ==
    /\ Len(fn) >= Len(ext)
    /\ \A i \in DOMAIN ext : LowerChar(fn[Len(fn) - Len(ext) + i]) = ext[i]

Mentions(ct, word) ==
    /\ ct # None
    /\ \E k \in 0..(Len(ct) - Len(word)) : \A i \in DOMAIN word : ct[k + i] = word[i]

ExpectedFormat(fn, ct) ==
    IF HasExtension(fn, S_TXT) THEN "txt"
    ELSE IF HasExtension(fn, S_EPUB) THEN "epub"
    ELSE IF Mentions(ct, S_TEXT_PLAIN) THEN "txt"
    ELSE IF Mentions(ct, S_EPUB_WORD) THEN "epub"
    ELSE "error"

DetectedFormat ==
    IF pc = "done" /\ result = Fail("Invalid format", UNSUPPORTED) THEN "error"
    ELSE file_format

\* C7: detect_format takes the first match of: a name ending in .txt in any
\* casing gives txt; one ending in .epub gives epub; a content type that
\* contains text/plain gives txt; one that contains epub gives epub;
\* anything else is the unsupported-format error.
C7_DetectFirstMatch ==
    (Did("detect") /\ filename # None) =>
        /\ DetectedFormat = ExpectedFormat(filename, content_type)
        /\ (filename = F_BOOK_UPPER /\ content_type = None) => DetectedFormat = "epub"
        /\ (filename = F_DATA /\ content_type = T_PLAIN) => DetectedFormat = "txt"
        /\ (filename = F_DATA /\ content_type = T_OCTET) => DetectedFormat = "error"

C7_Witness ==
    /\ Did("detect")
    /\ filename = F_NOTES
    /\ content_type = T_EPUB
    /\ file_format = "txt"

DecodedBody ==
    IF Utf8Valid(BodyBytes(content)) THEN Utf8Decode(BodyBytes(content))
    ELSE Latin1Decode(BodyBytes(content))

\* C8: parse_txt_file fails with the empty-content error, which the
\* endpoint reports under an error kind of its own and not as a parse
\* error, when the input is empty or all whitespace; every other input
\* gives one chapter "Untitled" whose text is the decoded input trimmed and
\* whose word_count is the number of whitespace-delimited tokens, at least 1.
C8_EmptyContentKind ==
    (Did("parse") /\ file_format = "txt") =>
        IF \A i \in DOMAIN DecodedBody : IsSpace(DecodedBody[i])
        THEN /\ pc = "done"
             /\ ~result.success
             /\ result.message = "File is empty"
             /\ result.error # "Parse error"
        ELSE /\ Len(chapters) = 1
             /\ chapters[1].title = UNTITLED
             /\ chapters[1].text = Strip(DecodedBody)
             /\ chapters[1].word_count = WordCount(chapters[1].text)
             /\ chapters[1].word_count >= 1

Book == content.doc

HasSuffix(name, suffix) ==
    /\ Len(name) >= Len(suffix)
    /\ \A i \in DOMAIN suffix : name[Len(name) - Len(suffix) + i] = suffix[i]

Qualifies(i) ==
    /\ Book.items[i].doc
    /\ Len(extract_text_from_html(Book.items[i].soup_text)) >= 100

AcceptedItems == {i \in DOMAIN Book.items : Qualifies(i)}

\* the k-th accepted item
NthAccepted(k) ==
    CHOOSE i \in AcceptedItems : Cardinality({j \in AcceptedItems : j < i}) = k - 1

ExpectedTitle(name, k) ==
    IF name = None \/ name = <<>> \/ HasSuffix(name, S_HTML) \/ HasSuffix(name, S_XHTML)
    THEN S_CHAPTER \o DecStr(k)
    ELSE name

\* C9: parse_epub_file returns the document items whose normalized text has
\* at least 100 characters, in package order, and fails with the
\* no-readable-content error when there is none; a returned chapter whose
\* item name is absent or ends in .html or .xhtml is titled "Chapter n", n
\* its position among the returned chapters, and any other keeps its name.
C9_EpubChapters ==
    (/\ Did("parse")
     /\ file_format = "epub"
     /\ Book.opens
     /\ \A i \in DOMAIN Book.items : Book.items[i].doc => Book.items[i].decodes) =>
        IF AcceptedItems = {}
        THEN pc = "done"
             /\ result = Fail("Parse error", "No readable content found in EPUB file")
        ELSE /\ Len(chapters) = Cardinality(AcceptedItems)
             /\ \A k \in DOMAIN chapters :
                   /\ chapters[k].text =
                         extract_text_from_html(Book.items[NthAccepted(k)].soup_text)
                   /\ chapters[k].title = ExpectedTitle(Book.items[NthAccepted(k)].name, k)
             /\ pc = "done" => result.success /\ result.chapters = chapters

C9_Witness ==
    /\ pc = "done"
    /\ result.success
    /\ Len(Book.items) = 2
    /\ Book.items[1].doc /\ Book.items[1].decodes /\ ~Qualifies(1)
    /\ Qualifies(2)
    /\ Book.items[2].name = N_CH_XHTML
    /\ Len(result.chapters) = 1
    /\ result.chapters[1].title = S_CHAPTER \o <<"1">>

UrlPath(u) == SplitFirst(SplitFirst(u, "#"), "?")

\* C10: in URL mode the filename given to format detection is the final
\* segment of the URL's path, the query string and the fragment left out,
\* also when the query string holds a "/".
C10_FilenameIsLastPathSegment ==
    (UrlMode /\ Did("detect")) =>
        /\ filename = SplitLast(UrlPath(url), "/")
        /\ HasExtension(SplitLast(UrlPath(url), "/"), S_EPUB) => file_format = "epub"

====
